---------------------------- MODULE Spec2Model ----------------------------
(***************************************************************************)
(* Network-diagnostic backend: POST /api/diagnosticar fans out to the      *)
(* GlobalPing and RIPE Atlas providers, merges their observations, stores  *)
(* the diagnostic in MemStorage and answers the client.                    *)
(*                                                                         *)
(* Specifications:                                                         *)
(*   Spec        one POST /api/diagnosticar request against the storage    *)
(*   SpecPoll    one GlobalpingService.executeMeasurement call             *)
(*   SpecRipe    one RipeAtlasService.executeDiagnostico call              *)
(*   SpecResumo  GlobalpingService.gerarResumo on bounded inputs           *)
(***************************************************************************)
EXTENDS Integers, Sequences, FiniteSets, TLC

VARIABLES route, gp, ripe, storage, meas, resumo

vars == <<route, gp, ripe, storage, meas, resumo>>

(***************************************************************************)
(* Generic helpers                                                         *)
(***************************************************************************)

\* JavaScript null / undefined / a rejected promise's ".catch(() => null)".
Null == [null |-> TRUE]

Range(s) == {s[k] : k \in 1..Len(s)}

\* Sequences over S of length at most n.
SeqsUpTo(S, n) == UNION {[1..k -> S] : k \in 0..n}

\* Array.prototype.slice(0, n)
Slice(s, n) == SubSeq(s, 1, IF n < Len(s) THEN n ELSE Len(s))

\* Math.ceil(n / 2) on integers
CeilHalf(n) == (n + 1) \div 2

\* No two elements of the list agree on the key.
PairwiseDistinct(s, Key(_)) ==
  \A a, b \in 1..Len(s) : a # b => Key(s[a]) # Key(s[b])

(***************************************************************************)
(* isValidDomain: the regular expression                                   *)
(*   ^([a-zA-Z0-9]([a-zA-Z0-9\-]{0,61}[a-zA-Z0-9])?\.)+[a-zA-Z]{2,}$       *)
(* on a domain given as its sequence of characters.                        *)
(***************************************************************************)
Letters == {"a", "b", "c", "e", "m", "o", "r", "x"}
Digits == {"0", "1", "9"}
Alnum == Letters \cup Digits

\* The labels between the dots, String.prototype.split('.').
RECURSIVE SplitDots(_, _)
SplitDots(chars, cur) ==
  IF chars = <<>> THEN <<cur>>
  ELSE IF Head(chars) = "." THEN <<cur>> \o SplitDots(Tail(chars), <<>>)
       ELSE SplitDots(Tail(chars), Append(cur, Head(chars)))

\* [a-zA-Z0-9]([a-zA-Z0-9\-]{0,61}[a-zA-Z0-9])?
IsLabel(l) ==
  /\ Len(l) >= 1
  /\ Len(l) <= 63
  /\ l[1] \in Alnum
  /\ l[Len(l)] \in Alnum
  /\ \A k \in 1..Len(l) : l[k] \in Alnum \cup {"-"}

\* [a-zA-Z]{2,}
IsTld(l) == Len(l) >= 2 /\ \A k \in 1..Len(l) : l[k] \in Letters

isValidDomain(dominio) ==
  LET parts == SplitDots(dominio, <<>>)
      n == Len(parts)
  IN  /\ n >= 2
      /\ IsTld(parts[n])
      /\ \A k \in 1..(n - 1) : IsLabel(parts[k])

(***************************************************************************)
(* GlobalpingService: result parsing                                       *)
(*                                                                         *)
(* A DNS result object of a measurement response:                          *)
(*   [hasResult, error, answers, timeTaken, asn, network]                  *)
(* answers is the list of answers' data ("" when the answer carries none), *)
(* timeTaken, asn are 0 and network is "" when the field is missing.       *)
(* A ping result object:                                                   *)
(*   [hasResult, stats, rawOutput, resolvedAddress, asn, network]          *)
(* stats is Null or [avg, loss, jitter, resolvedAddress]; rawOutput is     *)
(* Null or what the four regular expressions of parsePingOutput match in   *)
(* it: [avg, loss, stddev, resolved], -1 and "" standing for no match.     *)
(***************************************************************************)

\* `AS${probe.asn || '15169'}`: the ASN as its decimal text.
GpAsn(asn) == IF asn = 0 THEN "AS15169" ELSE "AS" \o ToString(asn)

GpIsp(network) == IF network = "" THEN "ISP Desconhecido" ELSE network

RECURSIVE parseDNSFrom(_, _, _, _, _)
parseDNSFrom(resultsArray, k, seenIps, countryCode, probeId) ==
  IF k > Len(resultsArray) THEN <<>>
  ELSE
    LET r == resultsArray[k]
        skip == \/ ~r.hasResult
                \/ r.error
                \/ r.answers = <<>>
        ipAddress == IF skip THEN "" ELSE r.answers[1]
    IN  IF skip \/ ipAddress = "" \/ ipAddress \in seenIps
        THEN parseDNSFrom(resultsArray, k + 1, seenIps, countryCode, probeId)
        ELSE <<[probe_id |-> probeId + (k - 1),
                region |-> countryCode,
                ip |-> ipAddress,
                asn |-> GpAsn(r.asn),
                isp |-> GpIsp(r.network),
                acessibilidade |-> "Acessivel",
                latencia |-> r.timeTaken,
                velocidade |-> "Normal",
                perda_pacotes |-> 0,
                jitter |-> 0,
                status |-> "OK"]>>
             \o parseDNSFrom(resultsArray, k + 1, seenIps \cup {ipAddress},
                             countryCode, probeId)

parseDNSResults(response, countryCode, probeId) ==
  parseDNSFrom(response.results, 1, {}, countryCode, probeId)

parsePingOutput(rawOutput) ==
  [avg |-> IF rawOutput.avg < 0 THEN 0 ELSE rawOutput.avg,
   loss |-> IF rawOutput.loss < 0 THEN 0 ELSE rawOutput.loss,
   jitter |-> IF rawOutput.stddev < 0 THEN 0 ELSE rawOutput.stddev,
   resolvedAddress |-> rawOutput.resolved]

\* result?.stats || (result.rawOutput ? this.parsePingOutput(result.rawOutput) : null)
PingStats(r) ==
  IF r.stats # Null THEN r.stats
  ELSE IF r.rawOutput # Null THEN parsePingOutput(r.rawOutput)
       ELSE Null

PingAcessibilidade(avg) ==
  IF avg > 200 THEN "Tempo lento" ELSE "Acessivel"

PingVelocidade(avg) ==
  IF avg < 30 THEN "Rapida" ELSE IF avg > 100 THEN "Lenta" ELSE "Normal"

PingStatus(avg) ==
  IF avg > 500 THEN "ERRO" ELSE IF avg > 200 THEN "AVISO" ELSE "OK"

RECURSIVE parsePingFrom(_, _, _, _, _)
parsePingFrom(resultsArray, k, seenIps, countryCode, probeId) ==
  IF k > Len(resultsArray) THEN <<>>
  ELSE
    LET r == resultsArray[k]
        stats == IF r.hasResult THEN PingStats(r) ELSE Null
        skip == \/ ~r.hasResult
                \/ stats = Null
                \/ stats.avg <= 0
                \/ stats.loss = 100
        resolvedIp == IF skip THEN "N/A"
                      ELSE IF stats.resolvedAddress # "" THEN stats.resolvedAddress
                      ELSE IF r.resolvedAddress # "" THEN r.resolvedAddress
                      ELSE "N/A"
    IN  IF skip \/ resolvedIp \in seenIps
        THEN parsePingFrom(resultsArray, k + 1, seenIps, countryCode, probeId)
        ELSE <<[probe_id |-> probeId + (k - 1),
                region |-> countryCode,
                ip |-> resolvedIp,
                asn |-> GpAsn(r.asn),
                isp |-> GpIsp(r.network),
                acessibilidade |-> PingAcessibilidade(stats.avg),
                latencia |-> stats.avg,
                velocidade |-> PingVelocidade(stats.avg),
                perda_pacotes |-> stats.loss,
                jitter |-> stats.jitter,
                status |-> PingStatus(stats.avg)]>>
             \o parsePingFrom(resultsArray, k + 1, seenIps \cup {resolvedIp},
                              countryCode, probeId)

parsePingResults(response, countryCode, probeId) ==
  parsePingFrom(response.results, 1, {}, countryCode, probeId)

\* executeMeasurement after the poll loop: the first parsed result, or null.
MeasurementResult(type, fullResponse, countryCode, probeId) ==
  IF fullResponse = Null THEN Null
  ELSE LET results == IF type = "dns"
                      THEN parseDNSResults(fullResponse, countryCode, probeId)
                      ELSE parsePingResults(fullResponse, countryCode, probeId)
       IN  IF Len(results) > 0 THEN results[1] ELSE Null

\* Mutant: every scope uses the GLOBAL row.
GpLocationTableGlobalOnly(escopo) ==
  <<"US", "DE", "JP", "BR", "AU", "SG", "IN", "CA", "MX", "GB">>

GpLocationTable(escopo) ==
  CASE escopo = "BR" -> <<"BR", "BR", "BR", "BR", "BR", "BR", "BR", "BR", "BR", "BR">>
    [] escopo = "AWS" -> <<"US", "DE", "JP", "BR", "CA", "US", "DE", "IN">>
    [] escopo = "AZURE" -> <<"US", "DE", "JP", "BR", "CA", "GB", "FR", "DE">>
    [] OTHER -> <<"US", "DE", "JP", "BR", "AU", "SG", "IN", "CA", "MX", "GB">>

GpGetLocations(escopo, limite) == Slice(GpLocationTable(escopo), limite)

(***************************************************************************)
(* What the GlobalPing API may answer (the environment)                    *)
(***************************************************************************)
DnsObject(hasResult, error, answers, asn, network) ==
  [hasResult |-> hasResult, error |-> error, answers |-> answers,
   timeTaken |-> 12, asn |-> asn, network |-> network]

DnsObjects ==
  { DnsObject(FALSE, FALSE, <<>>, 0, ""),
    DnsObject(TRUE, TRUE, <<"93.184.216.34">>, 0, ""),
    DnsObject(TRUE, FALSE, <<>>, 0, ""),
    DnsObject(TRUE, FALSE, <<"93.184.216.34">>, 64500, "ISP A") }

PingObject(hasResult, stats, rawOutput, asn, network) ==
  [hasResult |-> hasResult, stats |-> stats, rawOutput |-> rawOutput,
   resolvedAddress |-> "", asn |-> asn, network |-> network]

Stats(avg, loss, jitter, resolvedAddress) ==
  [avg |-> avg, loss |-> loss, jitter |-> jitter, resolvedAddress |-> resolvedAddress]

PingObjects ==
  { PingObject(FALSE, Null, Null, 0, ""),
    PingObject(TRUE, Null, Null, 0, ""),
    PingObject(TRUE, Stats(0, 100, 0, ""), Null, 0, ""),
    PingObject(TRUE, Stats(20, 0, 1, "93.184.216.34"), Null, 64500, "ISP A"),
    PingObject(TRUE, Stats(300, 0, 2, "93.184.216.34"), Null, 64500, "ISP A"),
    PingObject(TRUE, Stats(600, 0, 3, "1.1.1.1"), Null, 0, "") }

GpObjects(type) == IF type = "dns" THEN DnsObjects ELSE PingObjects

FinalStatuses == {"completed", "finished"}

\* Final poll responses carrying at most n results.
GpResponses(type, n) ==
  {[status |-> st, results |-> rs] :
     st \in FinalStatuses, rs \in SeqsUpTo(GpObjects(type), n)}

\* What one executeMeasurement call can return when its final response
\* carries at most one result: null (the create or a poll failed, no id, no
\* final status, nothing parsable) or the first parsed observation.
MeasurementOutcomes(type, countryCode, probeId) ==
  {Null} \cup
  {MeasurementResult(type, r, countryCode, probeId) : r \in GpResponses(type, 1)}

(***************************************************************************)
(* GlobalpingService.executeDiagnostico                                    *)
(***************************************************************************)
ProbesPerLocation == 3

\* log is the history of the executeMeasurement calls made, each with what
\* it returned; first tells whether the call settled before RIPE's did.
GpIdle ==
  [pc |-> "idle", dominio |-> <<>>, escopo |-> "", limite |-> 0,
   locations |-> <<>>, i |-> 0, probe |-> 0, allResults |-> <<>>, ret |-> Null,
   log |-> <<>>, first |-> FALSE]

GpCall(dominio, escopo, limite) ==
  [GpIdle EXCEPT !.pc = "start", !.dominio = dominio, !.escopo = escopo,
                 !.limite = limite]

GpResumo(n, m) ==
  [template |-> "Diagnostico completado com {0} medicoes de {1} locais",
   args |-> <<n, m>>]

\* Mutant: totalProbes counts the measurements attempted.
GpReturnCountsAttempts(allResults, locations) ==
  [resumo |-> GpResumo(Len(allResults), Len(locations)),
   resultados |-> allResults,
   totalProbes |-> 2 * ProbesPerLocation * Len(locations)]

\* The value executeDiagnostico resolves with.
GpReturn(allResults, locations) ==
  [resumo |-> GpResumo(Len(allResults), Len(locations)),
   resultados |-> allResults,
   totalProbes |-> Len(allResults)]

\* probeId handed to executeMeasurement
GpProbeId(type, i, probe) ==
  IF type = "dns" THEN i * 100 + probe ELSE 1000 + i * 100 + probe

\* Validation and getLocations, up to the first measurement.
GpStart ==
  /\ gp.pc = "start"
  /\ IF ~isValidDomain(gp.dominio)
     THEN gp' = [gp EXCEPT !.pc = "rejected",
                           !.first = ripe.pc \notin {"resolved", "rejected"}]
     ELSE LET locations == GpGetLocations(gp.escopo, gp.limite)
          IN  gp' = [gp EXCEPT !.locations = locations,
                               !.pc = IF locations = <<>> THEN "finish" ELSE "dns"]
  /\ UNCHANGED <<route, ripe, storage, meas, resumo>>

\* Mutant: one loop over the locations, the DNS and then the ping
\* measurements of a location made before the next location's.
GpAdvancePerLocation(g) ==
  IF g.probe + 1 < ProbesPerLocation
  THEN [g EXCEPT !.probe = g.probe + 1]
  ELSE IF g.pc = "dns"
       THEN [g EXCEPT !.probe = 0, !.pc = "ping"]
       ELSE IF g.i + 1 < Len(g.locations)
            THEN [g EXCEPT !.i = g.i + 1, !.probe = 0, !.pc = "dns"]
            ELSE [g EXCEPT !.i = 0, !.probe = 0, !.pc = "finish"]

\* The loop position after one more measurement of the two nested loops.
GpAdvance(g) ==
  IF g.probe + 1 < ProbesPerLocation
  THEN [g EXCEPT !.probe = g.probe + 1]
  ELSE IF g.i + 1 < Len(g.locations)
       THEN [g EXCEPT !.i = g.i + 1, !.probe = 0]
       ELSE [g EXCEPT !.i = 0, !.probe = 0,
                      !.pc = IF g.pc = "dns" THEN "ping" ELSE "finish"]

\* Mutant: a measurement that returns null discards what was collected.
GpPushOrReset(allResults, out) ==
  IF out = Null THEN <<>> ELSE Append(allResults, out)

\* if (dnsResult) allResults.push(dnsResult), and the same for pingResult
GpPush(allResults, out) ==
  IF out = Null THEN allResults ELSE Append(allResults, out)

\* The arguments of the executeMeasurement call of the current iteration.
GpCountryCode(g) == g.locations[g.i + 1]
GpCurrentProbeId(g) == GpProbeId(g.pc, g.i, g.probe)

\* The rest of an iteration once executeMeasurement has returned out: the
\* push, and the loop counters.
GpAfterMeasurement(g, out) ==
  GpAdvance([g EXCEPT
     !.allResults = GpPush(@, out),
     !.log = Append(@, [type |-> g.pc, target |-> g.dominio,
                        country |-> GpCountryCode(g),
                        probeId |-> GpCurrentProbeId(g), out |-> out])])

\* One iteration of the DNS or of the ping loop: await executeMeasurement
\* and push its result when it is not null.
GpMeasure ==
  /\ gp.pc \in {"dns", "ping"}
  /\ \E out \in MeasurementOutcomes(gp.pc, GpCountryCode(gp), GpCurrentProbeId(gp)) :
       gp' = GpAfterMeasurement(gp, out)
  /\ UNCHANGED <<route, ripe, storage, meas, resumo>>

\* After both loops: throw when nothing was measured, else return.
GpFinish ==
  /\ gp.pc = "finish"
  /\ gp' = IF Len(gp.allResults) = 0
           THEN [gp EXCEPT !.pc = "rejected",
                           !.first = ripe.pc \notin {"resolved", "rejected"}]
           ELSE [gp EXCEPT !.pc = "resolved",
                           !.ret = GpReturn(gp.allResults, gp.locations),
                           !.first = ripe.pc \notin {"resolved", "rejected"}]
  /\ UNCHANGED <<route, ripe, storage, meas, resumo>>

\* Mutant: a call in progress counts as settled.
GpSettledOrRunning == gp.pc # "idle"

GpSettled == gp.pc \in {"resolved", "rejected"}

(***************************************************************************)
(* RipeAtlasService (the version with seenAsns and seenIps)                *)
(*                                                                         *)
(* A probe of a listing: [asn_v4, country_code, description], asn_v4 = 0   *)
(* and description = "" standing for a missing field.                      *)
(***************************************************************************)
MaxProbes == 2

ProbeAsns == {0, 64500}

ProbeDescription(asn_v4) == IF asn_v4 = 64500 THEN "Probe ISP A" ELSE ""

\* The probes the API can list for a country.
ProbeObjects(countryCode) ==
  {[asn_v4 |-> a, country_code |-> countryCode,
    description |-> ProbeDescription(a)] : a \in ProbeAsns}

\* response.data.results of GET /probes/ with params.limit = limite * 3
ProbeListings(countryCode, limite) ==
  {l \in SeqsUpTo(ProbeObjects(countryCode), MaxProbes) : Len(l) <= limite * 3}

\* What `dig +short` prints on its first line, or that execSync threw.
DigOutcomes ==
  {[threw |-> TRUE, line |-> ""]} \cup
  {[threw |-> FALSE, line |-> l] :
     l \in {"", "cdn.example.net.", "93.184.216.34", "1.1.1.1"}}

\* /^(\d{1,3}\.){3}\d{1,3}$/ on the lines dig can print here
IsIPv4(line) == line \in {"93.184.216.34", "1.1.1.1"}

\* Date.now() - start, and Math.round(Math.random() * 5)
DigElapsed == {3}
JitterDraws == {2}

\* `AS${probe.asn_v4 || 'Unknown'}`
RipeAsn(probe) ==
  IF probe.asn_v4 = 0 THEN "ASUnknown" ELSE "AS" \o ToString(probe.asn_v4)

\* performRealMeasurement: null, or the observation of the probe.
performRealMeasurement(dig, elapsed, jitter, probe, id) ==
  IF dig.threw \/ dig.line = "" \/ ~IsIPv4(dig.line) THEN Null
  ELSE [probe_id |-> id,
        region |-> probe.country_code,
        ip |-> dig.line,
        asn |-> RipeAsn(probe),
        isp |-> IF probe.description = "" THEN "ISP Via RIPE Atlas"
                ELSE probe.description,
        acessibilidade |-> "Acessivel",
        latencia |-> elapsed + 20,
        velocidade |-> "Normal",
        perda_pacotes |-> 0,
        jitter |-> jitter,
        status |-> "OK"]

RipeGetLocations(escopo, limite) ==
  IF escopo = "BR" THEN <<"BR">> ELSE <<"US", "DE", "FR", "BR", "JP", "AU">>

\* listed is the history of the probe-listing requests sent (their params).
RipeIdle ==
  [pc |-> "idle", dominio |-> <<>>, escopo |-> "", limite |-> 0,
   locations |-> <<>>, c |-> 0, probes |-> <<>>, cur |-> Null,
   allResults |-> <<>>, seenAsns |-> {}, seenIps |-> {}, ret |-> Null,
   listed |-> <<>>]

RipeCall(dominio, escopo, limite) ==
  [RipeIdle EXCEPT !.pc = "start", !.dominio = dominio, !.escopo = escopo,
                   !.limite = limite]

RipeResumo(n) == [template |-> "RIPE Atlas: {0} medicoes.", args |-> <<n>>]

RipeReturn(allResults) ==
  [resumo |-> RipeResumo(Len(allResults)),
   resultados |-> allResults,
   totalProbes |-> Len(allResults)]

\* The outer loop enters its iteration c (from 0): GET /probes/ is sent with
\* params { country_code, status: 1, limit: limite * 3 }.
RipeSendList(r, c) ==
  [r EXCEPT !.c = c, !.pc = "list", !.probes = <<>>,
            !.listed = Append(@, [country_code |-> r.locations[c + 1],
                                  status |-> 1, limit |-> r.limite * 3])]

\* Mutant: the domain is not validated.
RipeStartUnvalidated ==
  /\ ripe.pc = "start"
  /\ LET locations == RipeGetLocations(ripe.escopo, ripe.limite)
         r == [ripe EXCEPT !.locations = locations]
     IN  ripe' = IF locations = <<>> THEN [r EXCEPT !.pc = "finish"]
                 ELSE RipeSendList(r, 0)
  /\ UNCHANGED <<route, gp, storage, meas, resumo>>

RipeStart ==
  /\ ripe.pc = "start"
  /\ IF ~isValidDomain(ripe.dominio)
     THEN ripe' = [ripe EXCEPT !.pc = "rejected"]
     ELSE LET locations == RipeGetLocations(ripe.escopo, ripe.limite)
              r == [ripe EXCEPT !.locations = locations]
          IN  ripe' = IF locations = <<>> THEN [r EXCEPT !.pc = "finish"]
                      ELSE RipeSendList(r, 0)
  /\ UNCHANGED <<route, gp, storage, meas, resumo>>

\* The probe listing of the current country arrives.
RipeListOk ==
  /\ ripe.pc = "list"
  /\ \E probes \in ProbeListings(ripe.locations[ripe.c + 1], ripe.limite) :
       ripe' = [ripe EXCEPT !.probes = probes, !.pc = "probe"]
  /\ UNCHANGED <<route, gp, storage, meas, resumo>>

\* The probe listing request fails: the error leaves executeDiagnostico.
RipeListFail ==
  /\ ripe.pc = "list"
  /\ ripe' = [ripe EXCEPT !.pc = "rejected"]
  /\ UNCHANGED <<route, gp, storage, meas, resumo>>

\* Mutant: the outer loop has no break of its own.
RipeAfterCountryNoBreak(r) ==
  IF r.c + 1 < Len(r.locations)
  THEN RipeSendList(r, r.c + 1)
  ELSE [r EXCEPT !.pc = "finish", !.probes = <<>>]

\* Leaving the inner loop: the outer loop's break, or its next country.
RipeAfterCountry(r) ==
  IF Len(r.allResults) >= r.limite THEN [r EXCEPT !.pc = "finish", !.probes = <<>>]
  ELSE IF r.c + 1 < Len(r.locations)
       THEN RipeSendList(r, r.c + 1)
       ELSE [r EXCEPT !.pc = "finish", !.probes = <<>>]

\* The head of the inner loop: the next probe, skipped when its ASN was seen.
RipeNextProbe ==
  /\ ripe.pc = "probe"
  /\ ripe' = IF ripe.probes = <<>> THEN RipeAfterCountry(ripe)
             ELSE IF RipeAsn(Head(ripe.probes)) \in ripe.seenAsns
                  THEN [ripe EXCEPT !.probes = Tail(@)]
                  ELSE [ripe EXCEPT !.probes = Tail(@), !.cur = Head(ripe.probes),
                                    !.pc = "measure"]
  /\ UNCHANGED <<route, gp, storage, meas, resumo>>

\* Whether the measured observation is pushed.
RipeAccepts(r, res) == res # Null /\ res.ip # "N/A" /\ res.ip \notin r.seenIps

\* Mutant: the accepted probe's ASN is not remembered.
RipeAcceptForgetsAsn(r, res) ==
  [r EXCEPT !.allResults = Append(@, res),
            !.seenIps = @ \cup {res.ip}]

\* The bookkeeping of an accepted observation.
RipeAccept(r, res) ==
  [r EXCEPT !.allResults = Append(@, res),
            !.seenAsns = @ \cup {RipeAsn(r.cur)},
            !.seenIps = @ \cup {res.ip}]

\* await performRealMeasurement for the current probe, and the rest of the
\* loop body.
RipeMeasure ==
  /\ ripe.pc = "measure"
  /\ \E dig \in DigOutcomes, elapsed \in DigElapsed, jitter \in JitterDraws :
       LET res == performRealMeasurement(dig, elapsed, jitter, ripe.cur,
                                         2000 + Len(ripe.allResults))
       IN  IF RipeAccepts(ripe, res)
           THEN LET r == [RipeAccept(ripe, res) EXCEPT !.cur = Null]
                IN  ripe' = IF Len(r.allResults) >= r.limite
                            THEN RipeAfterCountry(r)
                            ELSE [r EXCEPT !.pc = "probe"]
           ELSE ripe' = [ripe EXCEPT !.cur = Null, !.pc = "probe"]
  /\ UNCHANGED <<route, gp, storage, meas, resumo>>

RipeFinish ==
  /\ ripe.pc = "finish"
  /\ ripe' = [ripe EXCEPT !.pc = "resolved", !.ret = RipeReturn(ripe.allResults)]
  /\ UNCHANGED <<route, gp, storage, meas, resumo>>

RipeSettled == ripe.pc \in {"resolved", "rejected"}

(***************************************************************************)
(* MemStorage: diagnosticos is the Map's values in insertion order, each   *)
(* carrying its key in id; clock is the time of the system.                *)
(***************************************************************************)
MaxClock == 1

StorageInit == [diagnosticos |-> <<>>, diagnosticoIdCounter |-> 1, clock |-> 0]

\* Mutant: setting a key drops every other entry.
MapSetAlone(entries, d) == <<d>>

\* Map.prototype.set: a new key goes last, an old key keeps its place.
MapSet(entries, d) ==
  IF \E k \in 1..Len(entries) : entries[k].id = d.id
  THEN [k \in 1..Len(entries) |-> IF entries[k].id = d.id THEN d ELSE entries[k]]
  ELSE Append(entries, d)

\* The Diagnostico that saveDiagnostico builds at time now.
NewDiagnostico(st, data, now) ==
  [id |-> st.diagnosticoIdCounter,
   data |-> now,
   dominio |-> data.dominio,
   escopo |-> data.escopo,
   limite |-> data.limite,
   totalProbes |-> data.totalProbes,
   resumo |-> data.resumo,
   resultados |-> data.resultados]

\* Mutant: the id counter is not advanced.
saveDiagnosticoSameId(st, data, now) ==
  [diagnosticos |-> MapSet(st.diagnosticos, NewDiagnostico(st, data, now)),
   diagnosticoIdCounter |-> st.diagnosticoIdCounter,
   clock |-> now]

\* The storage after saveDiagnostico(data) at time now.
saveDiagnostico(st, data, now) ==
  [diagnosticos |-> MapSet(st.diagnosticos, NewDiagnostico(st, data, now)),
   diagnosticoIdCounter |-> st.diagnosticoIdCounter + 1,
   clock |-> now]

\* getDiagnostico: the entry with the id, or undefined.
getDiagnostico(st, id) ==
  IF \E k \in 1..Len(st.diagnosticos) : st.diagnosticos[k].id = id
  THEN st.diagnosticos[CHOOSE k \in 1..Len(st.diagnosticos) :
                          st.diagnosticos[k].id = id]
  ELSE Null

\* One insertion of a stable sort with the comparator
\* (a, b) => b.data.getTime() - a.data.getTime(): d goes after every entry
\* that is not older than it.
RECURSIVE InsertByDataDesc(_, _)
InsertByDataDesc(sorted, d) ==
  IF sorted = <<>> THEN <<d>>
  ELSE IF Head(sorted).data >= d.data
       THEN <<Head(sorted)>> \o InsertByDataDesc(Tail(sorted), d)
       ELSE <<d>> \o sorted

\* Array.prototype.sort with that comparator (the sort is stable).
RECURSIVE SortByDataDesc(_)
SortByDataDesc(entries) ==
  IF entries = <<>> THEN <<>>
  ELSE InsertByDataDesc(SortByDataDesc(SubSeq(entries, 1, Len(entries) - 1)),
                        entries[Len(entries)])

\* listDiagnosticos(limit): the values, sorted, sliced.
listDiagnosticos(st, limit) == Slice(SortByDataDesc(st.diagnosticos), limit)

(***************************************************************************)
(* POST /api/diagnosticar                                                  *)
(***************************************************************************)
EscopoEnum == {"GLOBAL", "BR", "AWS", "AZURE"}

\* Mutant: limite has no upper limit.
SchemaAcceptsNoMax(body) ==
  /\ Len(body.dominio) >= 1
  /\ body.escopo \in EscopoEnum
  /\ body.limite >= 1

\* diagnosticoRequestSchema.parse succeeds.
SchemaAccepts(body) ==
  /\ Len(body.dominio) >= 1
  /\ body.escopo \in EscopoEnum
  /\ body.limite >= 1
  /\ body.limite <= 1000

\* The request bodies that are sent.
Dominios ==
  { <<"e", "x", ".", "c", "o", "m">>,
    <<"e", "x", ";", "r", "m">>,
    <<>> }

Limites == {0, 1, 2, 1001}

Bodies ==
  [dominio : Dominios, escopo : {"GLOBAL", "BR", "EU"}, limite : Limites]

NoResponse == [status |-> 0, erro |-> "", body |-> Null]

\* calls is the history of the provider invocations, returned the history of
\* the diagnostics answered to clients, list the last listing answered, got
\* the last getDiagnostico answered.
RouteInit ==
  [pc |-> "idle", req |-> Null, response |-> NoResponse,
   calls |-> <<>>, returned |-> <<>>, list |-> Null, got |-> Null]

\* !gpResult && !ripeResult
TotalFailure(gpResult, ripeResult) == gpResult = Null /\ ripeResult = Null

\* Mutant: the first operand pasted twice.
MergeResultsPastedTwice(gpResult, ripeResult) ==
  (IF gpResult = Null THEN <<>> ELSE gpResult.resultados)
  \o (IF gpResult = Null THEN <<>> ELSE gpResult.resultados)

\* Mutant: the RIPE observations first.
MergeResultsRipeFirst(gpResult, ripeResult) ==
  (IF ripeResult = Null THEN <<>> ELSE ripeResult.resultados)
  \o (IF gpResult = Null THEN <<>> ELSE gpResult.resultados)

\* [...(gpResult?.resultados || []), ...(ripeResult?.resultados || [])]
MergeResults(gpResult, ripeResult) ==
  (IF gpResult = Null THEN <<>> ELSE gpResult.resultados)
  \o (IF ripeResult = Null THEN <<>> ELSE ripeResult.resultados)

RouteResumo(n) ==
  [template |-> "Analise Hibrida: {0} medicoes realizadas com sucesso.",
   args |-> <<n>>]

\* The InsertDiagnostico handed to storage.saveDiagnostico.
RouteInsert(req, allResults) ==
  [dominio |-> req.dominio, escopo |-> req.escopo, limite |-> req.limite,
   totalProbes |-> Len(allResults),
   resumo |-> RouteResumo(Len(allResults)),
   resultados |-> allResults]

\* Date.prototype.toLocaleString("pt-BR"): the text of a time.
ToLocaleString(t) == "data " \o ToString(t)

\* res.json({ ...saved, data: saved.data.toLocaleString("pt-BR") })
OkResponse(saved) ==
  [status |-> 200, erro |-> "",
   body |-> [saved EXCEPT !.data = ToLocaleString(saved.data)]]

\* res.status(500).json({ erro: error.message })
ErrorResponse(message) == [status |-> 500, erro |-> message, body |-> Null]

\* The request arrives: the schema check, then both providers are called.
Post ==
  /\ route.pc = "idle"
  /\ \E body \in Bodies :
       IF SchemaAccepts(body)
       THEN /\ route' = [route EXCEPT
                   !.pc = "awaiting", !.req = body,
                   !.calls = @ \o
                     <<[provider |-> "globalping", dominio |-> body.dominio,
                        escopo |-> body.escopo, limite |-> CeilHalf(body.limite)],
                       [provider |-> "ripe", dominio |-> body.dominio,
                        escopo |-> body.escopo, limite |-> CeilHalf(body.limite)]>>]
            /\ gp' = GpCall(body.dominio, body.escopo, CeilHalf(body.limite))
            /\ ripe' = RipeCall(body.dominio, body.escopo, CeilHalf(body.limite))
       ELSE /\ route' = [route EXCEPT !.pc = "done", !.req = body,
                                      !.response = ErrorResponse("ZodError")]
            /\ UNCHANGED <<gp, ripe>>
  /\ UNCHANGED <<storage, meas, resumo>>

\* What a provider call contributes to Promise.all: its value, or null
\* through .catch(() => null).
Settled(p) == IF p.pc = "resolved" THEN p.ret ELSE Null

\* Mutant: the save is made before the total-failure check.
StorageAfterMergeSaveFirst(st, req, gpResult, ripeResult, now) ==
  saveDiagnostico(st, RouteInsert(req, MergeResults(gpResult, ripeResult)), now)

\* The storage after the handler's code that follows Promise.all.
StorageAfterMerge(st, req, gpResult, ripeResult, now) ==
  IF TotalFailure(gpResult, ripeResult) THEN st
  ELSE saveDiagnostico(st, RouteInsert(req, MergeResults(gpResult, ripeResult)), now)

\* The handler's code that follows Promise.all, for what the two provider
\* calls contributed: the total-failure check, the merge, the save at some
\* time now, and the response.
AfterPromiseAll(req, gpResult, ripeResult) ==
  \E now \in storage.clock..MaxClock :
    /\ storage' = StorageAfterMerge(storage, req, gpResult, ripeResult, now)
    /\ route' =
         IF TotalFailure(gpResult, ripeResult)
         THEN [route EXCEPT !.pc = "done", !.req = req,
                            !.response = ErrorResponse("Falha total no diagnostico")]
         ELSE LET response ==
                    OkResponse(getDiagnostico(storage', storage.diagnosticoIdCounter))
              IN  [route EXCEPT !.pc = "done", !.req = req,
                                !.response = response,
                                !.returned = Append(@, response.body)]

\* Promise.all has settled: the merge, the save and the response.
Merge ==
  /\ route.pc = "awaiting"
  /\ GpSettled
  /\ RipeSettled
  /\ AfterPromiseAll(route.req, Settled(gp), Settled(ripe))
  /\ UNCHANGED <<gp, ripe, meas, resumo>>

(***************************************************************************)
(* Spec: one POST /api/diagnosticar request. The storage it meets is new   *)
(* or holds the diagnostics of MaxPriorSaves earlier requests.             *)
(***************************************************************************)
MaxPriorSaves == 1

PriorInsert ==
  LET probe == [asn_v4 |-> 64500, country_code |-> "BR", description |-> ""]
      o == performRealMeasurement([threw |-> FALSE, line |-> "1.1.1.1"], 3, 2,
                                  probe, 2000)
  IN  RouteInsert([dominio |-> <<"e", "x", ".", "c", "o", "m">>,
                   escopo |-> "BR", limite |-> 1], <<o>>)

RECURSIVE StorageAfterSaves(_)
StorageAfterSaves(k) ==
  IF k = 0 THEN StorageInit
  ELSE saveDiagnostico(StorageAfterSaves(k - 1), PriorInsert, 0)

MeasIdle ==
  [pc |-> "idle", type |-> "", countryCode |-> "", probeId |-> 0,
   creates |-> 0, polls |-> 0, retries |-> 0, hasId |-> FALSE,
   lastPoll |-> "", fullResponse |-> Null, result |-> Null,
   parsed |-> <<>>, width |-> 0, outstanding |-> 0, seq |-> 0]

ResumoIdle == [pc |-> "idle", resultados |-> <<>>, mensagens |-> <<>>]

Init ==
  /\ route = RouteInit
  /\ gp = GpIdle
  /\ ripe = RipeIdle
  /\ storage \in {StorageAfterSaves(k) : k \in {0, MaxPriorSaves}}
  /\ meas = MeasIdle
  /\ resumo = ResumoIdle

Next ==
  \/ Post
  \/ GpStart
  \/ GpMeasure
  \/ GpFinish
  \/ RipeStart
  \/ RipeListOk
  \/ RipeListFail
  \/ RipeNextProbe
  \/ RipeMeasure
  \/ RipeFinish
  \/ Merge

Spec == Init /\ [][Next]_vars

(***************************************************************************)
(* Claims about POST /api/diagnosticar, checked under Spec                 *)
(***************************************************************************)
Done == route.pc = "done"

Succeeded == Done /\ route.response.status = 200

\* The diagnostic this request stored (when it succeeded).
Stored == getDiagnostico(storage, route.response.body.id)

OnlyGpFailed == gp.pc = "rejected" /\ ripe.pc = "resolved"
OnlyRipeFailed == gp.pc = "resolved" /\ ripe.pc = "rejected"
BothFailed == gp.pc = "rejected" /\ ripe.pc = "rejected"

\* C1: after a successful POST /api/diagnosticar no two observations of the
\* resultados list that is stored and returned have the same ip.
C1_MergedListDeduplicated ==
  Succeeded =>
    /\ PairwiseDistinct(Stored.resultados, LAMBDA o : o.ip)
    /\ PairwiseDistinct(route.response.body.resultados, LAMBDA o : o.ip)

\* C2: when exactly one provider fails and the other succeeds, the request
\* succeeds and the diagnostic stored and returned holds exactly the
\* surviving provider's observations, in that provider's order.
C2_FallbackToSurvivor ==
  /\ (Done /\ OnlyGpFailed) =>
       /\ route.response.status = 200
       /\ Stored.resultados = ripe.ret.resultados
       /\ route.response.body.resultados = ripe.ret.resultados
  /\ (Done /\ OnlyRipeFailed) =>
       /\ route.response.status = 200
       /\ Stored.resultados = gp.ret.resultados
       /\ route.response.body.resultados = gp.ret.resultados

\* Witness of C2: GlobalPing succeeded with several observations, RIPE failed.
C2_Witness ==
  /\ Done
  /\ OnlyRipeFailed
  /\ Len(gp.ret.resultados) >= 2
  /\ Len(Stored.resultados) >= 2

\* C3: when both providers fail, the step that answers the request answers
\* with status 500 and an erro message and leaves the storage as it was: no
\* diagnostic added, the id counter not advanced.
C3_TotalFailureAnswersError ==
  [][(route.pc = "awaiting" /\ route'.pc = "done" /\ BothFailed) =>
       /\ route'.response.status = 500
       /\ route'.response.erro # ""
       /\ route'.response.body = Null
       /\ storage' = storage]_vars

\* Witness of C3: a request with a valid domain was answered after both
\* providers failed, with an earlier diagnostic in the storage.
C3_Witness ==
  /\ Done
  /\ BothFailed
  /\ isValidDomain(route.req.dominio)
  /\ Len(storage.diagnosticos) >= 1

\* C4: the diagnostic stored and returned never holds more observations than
\* the request's limite.
C4_LimitRespected ==
  Succeeded =>
    /\ Len(Stored.resultados) <= route.req.limite
    /\ Len(route.response.body.resultados) <= route.req.limite

\* C5: a request whose providers yield no observation at all is answered with
\* an error, and every stored diagnostic has a non-empty resultados list.
C5_StoredOnlyWithObservations ==
  /\ (Done /\ GpSettled /\ RipeSettled
        /\ MergeResults(Settled(gp), Settled(ripe)) = <<>>)
       => (route.response.status = 500 /\ route.response.erro # "")
  /\ \A k \in 1..Len(storage.diagnosticos) :
        storage.diagnosticos[k].resultados # <<>>

\* A resumo that reports success or normal connectivity.
ReportsSuccess(r) ==
  r.template \in {"Analise Hibrida: {0} medicoes realizadas com sucesso.",
                  "Conectividade normal em todas as regioes testadas."}

\* C10: the resumo of the stored diagnostic reports success or normal
\* connectivity only if no observation has status AVISO or ERRO.
C10_ResumoFromStatus ==
  Succeeded =>
    (ReportsSuccess(Stored.resumo)
       => \A k \in 1..Len(Stored.resultados) :
             Stored.resultados[k].status \notin {"AVISO", "ERRO"})

(***************************************************************************)
(* SpecPoll: one GlobalpingService.executeMeasurement call.                *)
(* meas.creates and meas.polls count the POST and GET requests sent,       *)
(* meas.lastPoll is what the last poll request met: the status of its      *)
(* response, or "error" when the request failed.                           *)
(***************************************************************************)
maxRetries == 30

MaxResults == 2

\* What a poll can answer: not yet final, or final with its results.
\* meas.width is the most results a final response carries in this run.
PollResponses(type) ==
  {[status |-> "in-progress", results |-> <<>>]} \cup GpResponses(type, meas.width)

\* Mutant: the loop bound off by one.
PollAgainOffByOne(retries) == retries <= maxRetries

\* while (retries < maxRetries)
PollAgain(retries) == retries < maxRetries

\* The call starts: the create request is sent.
MeasCreate ==
  /\ meas.pc = "start"
  /\ meas' = [meas EXCEPT !.pc = "create_sent", !.creates = @ + 1,
                          !.outstanding = @ + 1]
  /\ UNCHANGED <<route, gp, ripe, storage, resumo>>

\* The create request fails: the catch returns null.
MeasCreateFail ==
  /\ meas.pc = "create_sent"
  /\ meas' = [meas EXCEPT !.pc = "done", !.result = Null, !.outstanding = @ - 1]
  /\ UNCHANGED <<route, gp, ripe, storage, resumo>>

\* The create response arrives, with or without a measurement id.
MeasCreateResponse ==
  /\ meas.pc = "create_sent"
  /\ \E hasId \in BOOLEAN :
       meas' = IF hasId
               THEN [meas EXCEPT !.pc = "loop", !.hasId = TRUE, !.retries = 0,
                                 !.fullResponse = Null, !.outstanding = @ - 1]
               ELSE [meas EXCEPT !.pc = "done", !.result = Null,
                                 !.outstanding = @ - 1]
  /\ UNCHANGED <<route, gp, ripe, storage, resumo>>

\* The loop condition; inside, the 500 ms wait and the poll request is sent.
MeasLoop ==
  /\ meas.pc = "loop"
  /\ meas' = IF PollAgain(meas.retries)
             THEN [meas EXCEPT !.pc = "poll_sent", !.polls = @ + 1,
                               !.outstanding = @ + 1]
             ELSE [meas EXCEPT !.pc = "after"]
  /\ UNCHANGED <<route, gp, ripe, storage, resumo>>

\* What a failed poll request leads to: the error leaves the loop and
\* reaches the catch of executeMeasurement, which returns null.
AfterPollError(m) ==
  [m EXCEPT !.pc = "done", !.lastPoll = "error", !.result = Null,
            !.outstanding = @ - 1]

MeasPollFail ==
  /\ meas.pc = "poll_sent"
  /\ meas' = AfterPollError(meas)
  /\ UNCHANGED <<route, gp, ripe, storage, resumo>>

\* The poll response arrives: final (break) or not (retries++).
MeasPollResponse ==
  /\ meas.pc = "poll_sent"
  /\ \E resp \in PollResponses(meas.type) :
       meas' = IF resp.status \in FinalStatuses
               THEN [meas EXCEPT !.pc = "after", !.lastPoll = resp.status,
                                 !.fullResponse = resp, !.outstanding = @ - 1]
               ELSE [meas EXCEPT !.pc = "loop", !.lastPoll = resp.status,
                                 !.retries = @ + 1, !.outstanding = @ - 1]
  /\ UNCHANGED <<route, gp, ripe, storage, resumo>>

\* After the loop: null without a final response, else the first parsed result.
MeasReturn ==
  /\ meas.pc = "after"
  /\ meas' = [meas EXCEPT !.pc = "done",
                          !.result = MeasurementResult(meas.type, meas.fullResponse,
                                                       meas.countryCode, meas.probeId)]
  /\ UNCHANGED <<route, gp, ripe, storage, resumo>>

InitPoll ==
  /\ route = RouteInit
  /\ gp = GpIdle
  /\ ripe = RipeIdle
  /\ storage = StorageInit
  /\ resumo = ResumoIdle
  /\ \E type \in {"dns", "ping"}, countryCode \in {"BR", "US"} :
       meas = [MeasIdle EXCEPT !.pc = "start", !.type = type,
                               !.countryCode = countryCode,
                               !.probeId = GpProbeId(type, 0, 0),
                               !.width = MaxResults, !.seq = 1]

NextPoll ==
  \/ MeasCreate
  \/ MeasCreateFail
  \/ MeasCreateResponse
  \/ MeasLoop
  \/ MeasPollFail
  \/ MeasPollResponse
  \/ MeasReturn

\* Every HTTP call returns or fails (axios timeouts), and the event loop
\* runs the continuation.
SpecPoll == InitPoll /\ [][NextPoll]_vars /\ WF_vars(NextPoll)

C6_Safety ==
  /\ meas.creates <= 1
  /\ meas.pc # "start" => meas.creates = 1
  /\ meas.polls > 0 => meas.hasId
  /\ meas.polls <= 30
  /\ (meas.pc = "done" /\ meas.lastPoll \notin FinalStatuses) => meas.result = Null

\* C6: one executeMeasurement call sends exactly one create request, polls
\* only after the create response carried an id, sends at most 30 polls, sends
\* no poll after a poll reported a final status, returns no observation when
\* no poll reported a final status, and terminates.
C6_PollingBounded ==
  /\ []C6_Safety
  /\ [][meas.lastPoll \in FinalStatuses => meas'.polls = meas.polls]_vars
  /\ <>(meas.pc = "done")

\* Witness of C6: the call ended after all 30 polls without a final status.
C6_Witness ==
  /\ meas.pc = "done"
  /\ meas.polls = 30
  /\ meas.creates = 1
  /\ meas.lastPoll = "in-progress"
  /\ meas.result = Null

\* C7: a poll that fails or reports a non-final status is followed by another
\* poll while fewer than 30 polls were made: a measurement that got its id is
\* given up without a final status only after 30 polls.
C7_UnsuccessfulPollRetried ==
  /\ []((meas.pc = "done" /\ meas.hasId /\ meas.lastPoll \notin FinalStatuses)
          => meas.polls = 30)
  /\ [][(meas.pc = "poll_sent" /\ meas'.pc # "poll_sent"
           /\ meas'.lastPoll \notin FinalStatuses /\ meas.polls < 30)
          => meas'.pc = "loop"]_vars

(***************************************************************************)
(* SpecRipe: one RipeAtlasService.executeDiagnostico call                  *)
(***************************************************************************)
MaxRipeLimite == 2

InitRipe ==
  /\ route = RouteInit
  /\ gp = GpIdle
  /\ storage = StorageInit
  /\ meas = MeasIdle
  /\ resumo = ResumoIdle
  /\ \E escopo \in {"GLOBAL", "BR"}, limite \in 1..MaxRipeLimite :
       ripe = RipeCall(<<"e", "x", ".", "c", "o", "m">>, escopo, limite)

NextRipe ==
  \/ RipeStart
  \/ RipeListOk
  \/ RipeListFail
  \/ RipeNextProbe
  \/ RipeMeasure
  \/ RipeFinish

SpecRipe == InitRipe /\ [][NextRipe]_vars

\* The ASNs of the observations accepted so far.
AcceptedAsns == {ripe.allResults[k].asn : k \in 1..Len(ripe.allResults)}

\* C8: in the list RipeAtlasService.executeDiagnostico builds and returns no
\* two observations have the same asn and no two have the same ip, and the
\* probe being measured never has an ASN that was already accepted.
C8_RipeSetDedup ==
  /\ PairwiseDistinct(ripe.allResults, LAMBDA o : o.asn)
  /\ PairwiseDistinct(ripe.allResults, LAMBDA o : o.ip)
  /\ ripe.pc = "resolved" => ripe.ret.resultados = ripe.allResults
  /\ ripe.pc = "measure" => RipeAsn(ripe.cur) \notin AcceptedAsns

\* Witness of C8: with one observation accepted, the next listed probe has
\* the accepted ASN (and is about to be skipped).
C8_Witness ==
  /\ ripe.pc = "probe"
  /\ Len(ripe.allResults) >= 1
  /\ ripe.probes # <<>>
  /\ RipeAsn(Head(ripe.probes)) \in AcceptedAsns

(***************************************************************************)
(* GlobalpingService.gerarResumo (the version that synthesizes the resumo  *)
(* from the observations). The summary text is modelled as the list of     *)
(* its messages, which the code joins with " | ": each message is          *)
(* [tipo, pais, isps], the isps being the list that is joined with ", ".   *)
(***************************************************************************)

\* The values of a list without repetitions, each at its first place: the
\* key order of porPais (its keys are country codes, none integer-like),
\* and [...new Set(list)].
RECURSIVE Distinct(_)
Distinct(s) ==
  IF s = <<>> THEN <<>>
  ELSE LET rest == Distinct(SubSeq(s, 1, Len(s) - 1))
           last == s[Len(s)]
       IN  IF last \in Range(rest) THEN rest ELSE Append(rest, last)

\* porPais[pais]
PorPais(resultados, pais) == SelectSeq(resultados, LAMBDA r : r.region = pais)

\* Mutant: critical only when every failing probe has status ERRO.
MensagemTipoEvery(probes) ==
  IF \A k \in 1..Len(probes) : probes[k].status = "ERRO"
  THEN "Falha critica" ELSE "Instabilidade"

\* probes.some(p => p.status === 'ERRO')
MensagemTipo(probes) ==
  IF \E k \in 1..Len(probes) : probes[k].status = "ERRO"
  THEN "Falha critica" ELSE "Instabilidade"

\* The body of the loop over porPais: the messages of one country.
MensagensDoPais(resultados, pais) ==
  LET probes == SelectSeq(PorPais(resultados, pais), LAMBDA p : p.status # "OK")
      isps == Distinct([k \in 1..Len(probes) |-> probes[k].isp])
  IN  IF Len(probes) = 0 THEN <<>>
      ELSE <<[tipo |-> MensagemTipo(probes), pais |-> pais, isps |-> isps]>>

RECURSIVE MensagensDe(_, _)
MensagensDe(resultados, paises) ==
  IF paises = <<>> THEN <<>>
  ELSE MensagensDoPais(resultados, Head(paises))
       \o MensagensDe(resultados, Tail(paises))

MensagemNormal ==
  [tipo |-> "Conectividade normal em todas as regioes testadas.",
   pais |-> "", isps |-> <<>>]

gerarResumo(resultados) ==
  LET paises == Distinct([k \in 1..Len(resultados) |-> resultados[k].region])
      mensagens == MensagensDe(resultados, paises)
  IN  IF Len(mensagens) = 0 THEN <<MensagemNormal>> ELSE mensagens

(***************************************************************************)
(* SpecResumo: gerarResumo applied to every list of at most MaxObs         *)
(* observations over three countries, two ISPs and the three statuses.     *)
(***************************************************************************)
MaxObs == 3

ResumoObs(region, isp, status) ==
  [probe_id |-> 0, region |-> region, ip |-> "N/A", asn |-> "ASN/A",
   isp |-> isp, acessibilidade |-> "", latencia |-> 0, velocidade |-> "Normal",
   perda_pacotes |-> 0, jitter |-> 0, status |-> status]

ResumoInputs ==
  SeqsUpTo({ResumoObs(region, isp, status) :
              region \in {"BR", "US", "DE"},
              isp \in {"ISP A", "ISP B"},
              status \in {"OK", "AVISO", "ERRO"}}, MaxObs)

InitResumo ==
  /\ route = RouteInit
  /\ gp = GpIdle
  /\ ripe = RipeIdle
  /\ storage = StorageInit
  /\ meas = MeasIdle
  /\ \E resultados \in ResumoInputs :
       resumo = [pc |-> "start", resultados |-> resultados, mensagens |-> <<>>]

GerarResumo ==
  /\ resumo.pc = "start"
  /\ resumo' = [resumo EXCEPT !.pc = "done",
                              !.mensagens = gerarResumo(resumo.resultados)]
  /\ UNCHANGED <<route, gp, ripe, storage, meas>>

NextResumo == GerarResumo

SpecResumo == InitResumo /\ [][NextResumo]_vars

\* The observations of a region that are not OK.
FailingOf(resultados, pais) ==
  {k \in 1..Len(resultados) :
     resultados[k].region = pais /\ resultados[k].status # "OK"}

\* The first place of a region in the list.
FirstPlace(resultados, pais) ==
  CHOOSE k \in 1..Len(resultados) :
    /\ resultados[k].region = pais
    /\ \A j \in 1..(k - 1) : resultados[j].region # pais

\* C9: the summary is the single normal-connectivity message iff every
\* observation is OK; otherwise it holds exactly one message per region with
\* a non-OK observation, in first-appearance order of the regions, 'Falha
\* critica' iff the region has an ERRO observation and 'Instabilidade'
\* otherwise, listing the distinct ISPs of the region's non-OK observations.
C9_GerarResumo ==
  resumo.pc = "done" =>
    LET rs == resumo.resultados
        ms == resumo.mensagens
        allOk == \A k \in 1..Len(rs) : rs[k].status = "OK"
        failing == {rs[k].region : k \in {j \in 1..Len(rs) : rs[j].status # "OK"}}
    IN  /\ (ms = <<MensagemNormal>>) <=> allOk
        /\ ~allOk =>
             /\ {ms[k].pais : k \in 1..Len(ms)} = failing
             /\ Len(ms) = Cardinality(failing)
             /\ \A a, b \in 1..Len(ms) :
                  a < b => FirstPlace(rs, ms[a].pais) < FirstPlace(rs, ms[b].pais)
             /\ \A k \in 1..Len(ms) :
                  LET f == FailingOf(rs, ms[k].pais)
                  IN  /\ ms[k].tipo = "Falha critica"
                         <=> \E j \in f : rs[j].status = "ERRO"
                      /\ ms[k].tipo = "Instabilidade"
                         <=> ~\E j \in f : rs[j].status = "ERRO"
                      /\ Range(ms[k].isps) = {rs[j].isp : j \in f}
                      /\ Len(ms[k].isps) = Cardinality({rs[j].isp : j \in f})

\* Witness of C9: two regions fail, the later one critically, while an
\* observation of the critical region is OK and comes first.
C9_Witness ==
  /\ resumo.pc = "done"
  /\ Len(resumo.mensagens) = 2
  /\ resumo.mensagens[1].tipo = "Falha critica"
  /\ resumo.mensagens[2].tipo = "Instabilidade"
  /\ resumo.resultados[1].status = "OK"
  /\ resumo.resultados[1].region = resumo.mensagens[1].pais

(***************************************************************************)
(* SpecGp: one GlobalpingService.executeDiagnostico call                   *)
(***************************************************************************)

\* The (escopo, limite) pairs of the calls.
GpCalls == {<<"GLOBAL", 1>>, <<"GLOBAL", 2>>, <<"BR", 1>>}

InitGp ==
  /\ route = RouteInit
  /\ ripe = RipeIdle
  /\ storage = StorageInit
  /\ meas = MeasIdle
  /\ resumo = ResumoIdle
  /\ \E dominio \in Dominios \ {<<>>}, call \in GpCalls :
       gp = GpCall(dominio, call[1], call[2])

NextGp ==
  \/ GpStart
  \/ GpMeasure
  \/ GpFinish

SpecGp == InitGp /\ [][NextGp]_vars

\* The observations of the logged measurements that returned one, in order.
RECURSIVE LogObservations(_)
LogObservations(log) ==
  IF log = <<>> THEN <<>>
  ELSE LET rest == LogObservations(SubSeq(log, 1, Len(log) - 1))
           last == log[Len(log)]
       IN  IF last.out = Null THEN rest ELSE Append(rest, last.out)

\* How many logged measurements of the type name the country.
AttemptsOf(log, type, country) ==
  Cardinality({k \in 1..Len(log) : log[k].type = type /\ log[k].country = country})

\* How many of the selected locations are the country.
SelectedTimes(locations, country) ==
  Cardinality({k \in 1..Len(locations) : locations[k] = country})

\* C11: in GlobalpingService.executeDiagnostico a measurement that returns
\* nothing does not stop the run: the collected list is at every moment the
\* observations of the measurements that succeeded, and when the call (with a
\* valid domain) has settled, 3 DNS and 3 ping measurements were attempted
\* for every selected location, the call resolved with exactly those
\* observations if there is one, and failed only if there is none.
C11_GpPartialData ==
  /\ gp.allResults = LogObservations(gp.log)
  /\ (GpSettled /\ isValidDomain(gp.dominio)) =>
       /\ \A type \in {"dns", "ping"}, country \in Range(gp.locations) :
            AttemptsOf(gp.log, type, country)
              = 3 * SelectedTimes(gp.locations, country)
       /\ Len(gp.log) = 6 * Len(gp.locations)
       /\ LogObservations(gp.log) # <<>> =>
            (gp.pc = "resolved" /\ gp.ret.resultados = LogObservations(gp.log))
       /\ LogObservations(gp.log) = <<>> => gp.pc = "rejected"

\* Witness of C11: a call over two different countries resolved although its
\* first DNS measurement, a later one and a ping measurement returned
\* nothing, with observations collected after each of them.
C11_Witness ==
  /\ gp.pc = "resolved"
  /\ Len(gp.locations) = 2
  /\ gp.locations[1] # gp.locations[2]
  /\ gp.log[1].out = Null
  /\ gp.log[2].out # Null
  /\ gp.log[4].out = Null
  /\ gp.log[7].out = Null
  /\ gp.log[12].out # Null
  /\ Len(gp.ret.resultados) >= 3

(***************************************************************************)
(* More claims about RipeAtlasService.executeDiagnostico, under SpecRipe   *)
(***************************************************************************)

\* C12: when RipeAtlasService.executeDiagnostico has settled, the
\* observations it had accepted are what the caller gets: a failed probe
\* listing does not discard the observations of earlier countries.
C12_RipePartialData ==
  RipeSettled =>
    \/ ripe.pc = "resolved" /\ ripe.ret.resultados = ripe.allResults
    \/ ripe.allResults = <<>>

\* C20: RipeAtlasService.executeDiagnostico returns at most limite
\* observations, and once limite observations are accepted no measurement is
\* in progress or started and no probe listing is pending or sent.
C20_RipeHonoursLimit ==
  /\ [](/\ Len(ripe.allResults) <= ripe.limite
        /\ ripe.pc = "resolved" => Len(ripe.ret.resultados) <= ripe.limite
        /\ Len(ripe.allResults) >= ripe.limite =>
             ripe.pc \notin {"list", "probe", "measure"})
  /\ [][Len(ripe.allResults) >= ripe.limite =>
          /\ ripe'.listed = ripe.listed
          /\ ripe'.pc \notin {"list", "measure"}]_vars

\* Witness of C20: the call resolved with limite = 2 observations taken from
\* the first country's listing alone, other countries left unlisted.
C20_Witness ==
  /\ ripe.pc = "resolved"
  /\ ripe.limite = 2
  /\ Len(ripe.ret.resultados) = 2
  /\ Len(ripe.listed) = 1
  /\ Len(ripe.locations) > 1

(***************************************************************************)
(* More claims about POST /api/diagnosticar, checked under Spec            *)
(***************************************************************************)

\* A body the request validation is said to refuse.
BadBody(body) ==
  \/ body.dominio = <<>>
  \/ body.escopo \notin {"GLOBAL", "BR", "AWS", "AZURE"}
  \/ body.limite < 1
  \/ body.limite > 1000

\* The storages a request can meet.
InitialStorages == {StorageAfterSaves(k) : k \in {0, MaxPriorSaves}}

\* C14: a request whose dominio is empty, whose escopo is not one of GLOBAL,
\* BR, AWS, AZURE or whose limite is not between 1 and 1000 is answered with
\* an error; no provider is invoked for it and nothing is stored.
C14_RequestValidation ==
  (route.req # Null /\ BadBody(route.req)) =>
    /\ route.pc = "done"
    /\ route.response.status >= 400
    /\ route.response.erro # ""
    /\ route.response.body = Null
    /\ route.calls = <<>>
    /\ gp.pc = "idle"
    /\ ripe.pc = "idle"
    /\ storage \in InitialStorages
    /\ route.returned = <<>>

\* Witness of C14: a request refused only for its limite of 1001.
C14_Witness ==
  /\ Done
  /\ route.req.limite = 1001
  /\ route.req.dominio # <<>>
  /\ route.req.escopo = "BR"
  /\ route.response.status = 500

\* C15: for a request with escopo BR every GlobalPing measurement request
\* and every RIPE probe-listing request names country BR, and every
\* observation GlobalPing collects and returns has region BR.
C15_ScopeNarrowsProbes ==
  (route.req # Null /\ route.req.escopo = "BR") =>
    /\ \A k \in 1..Len(gp.log) : gp.log[k].country = "BR"
    /\ \A k \in 1..Len(ripe.listed) : ripe.listed[k].country_code = "BR"
    /\ \A k \in 1..Len(gp.allResults) : gp.allResults[k].region = "BR"
    /\ gp.pc = "resolved" =>
         \A k \in 1..Len(gp.ret.resultados) : gp.ret.resultados[k].region = "BR"

\* Witness of C15: a BR request whose GlobalPing call made its six
\* measurements and returned observations, RIPE having listed probes.
C15_Witness ==
  /\ route.req # Null
  /\ route.req.escopo = "BR"
  /\ gp.pc = "resolved"
  /\ Len(gp.log) = 6
  /\ Len(gp.ret.resultados) >= 2
  /\ Len(ripe.listed) >= 1

\* The least integer that is at least n / 2.
HalfRoundedUp(n) == CHOOSE h \in 0..n : 2 * h >= n /\ 2 * (h - 1) < n

\* C17: for a valid request each provider is invoked exactly once, with the
\* request's dominio and escopo and the limit ceil(limite / 2); both calls
\* are started before either is awaited; nothing is saved or answered
\* while the handler awaits them, and the handler is done only when both
\* calls have settled.
C17_FanOut ==
  (route.req # Null /\ ~BadBody(route.req)) =>
    /\ Len(route.calls) = 2
    /\ {route.calls[k].provider : k \in 1..2} = {"globalping", "ripe"}
    /\ \A k \in 1..2 :
         /\ route.calls[k].dominio = route.req.dominio
         /\ route.calls[k].escopo = route.req.escopo
         /\ route.calls[k].limite = HalfRoundedUp(route.req.limite)
    /\ gp.pc # "idle" /\ ripe.pc # "idle"
    /\ gp.dominio = route.req.dominio /\ ripe.dominio = route.req.dominio
    /\ gp.escopo = route.req.escopo /\ ripe.escopo = route.req.escopo
    /\ gp.limite = HalfRoundedUp(route.req.limite)
    /\ ripe.limite = HalfRoundedUp(route.req.limite)
    /\ route.pc = "awaiting" =>
         /\ route.response = NoResponse
         /\ route.returned = <<>>
         /\ storage \in InitialStorages
    /\ route.pc = "done" =>
         /\ gp.pc \in {"resolved", "rejected"}
         /\ ripe.pc \in {"resolved", "rejected"}

\* Witness of C17: both provider calls are in progress at the same time,
\* each having got results, for a request with limite 2.
C17_Witness ==
  /\ route.pc = "awaiting"
  /\ route.req.limite = 2
  /\ gp.pc = "ping"
  /\ Len(gp.allResults) >= 1
  /\ ripe.pc = "measure"
  /\ Len(ripe.listed) >= 1

\* C18: a request refused for bad input (a body failing the schema, or a
\* domain the providers report as invalid) is answered with status 400, a
\* failure of the diagnosis itself with status 500.
C18_ErrorStatus ==
  Done =>
    /\ (BadBody(route.req) \/ ~isValidDomain(route.req.dominio)) =>
         route.response.status = 400
    /\ (~BadBody(route.req) /\ isValidDomain(route.req.dominio) /\ BothFailed) =>
         route.response.status = 500

\* C19: when both providers succeed the stored and returned resultados is
\* all GlobalPing observations followed by all RIPE observations, each in
\* its provider's order, whichever provider settled first.
C19_MergedOrder ==
  (Done /\ gp.pc = "resolved" /\ ripe.pc = "resolved") =>
    /\ route.response.status = 200
    /\ Stored.resultados = gp.ret.resultados \o ripe.ret.resultados
    /\ route.response.body.resultados = gp.ret.resultados \o ripe.ret.resultados

\* Witness of C19: RIPE settled before GlobalPing did, both with observations.
C19_Witness ==
  /\ Done
  /\ gp.pc = "resolved"
  /\ ripe.pc = "resolved"
  /\ ~gp.first
  /\ Len(gp.ret.resultados) >= 2
  /\ Len(ripe.ret.resultados) >= 1
  /\ Len(Stored.resultados) >= 3

(***************************************************************************)
(* SpecStorage: the storage over several requests. Each POST is taken at   *)
(* the point where its provider calls have settled; listings are made by   *)
(* GET /api/diagnosticos and by listDiagnosticos(limit) directly.          *)
(***************************************************************************)
MaxSaves == 3

MaxList == 3

\* storage.listDiagnosticos(10)
ListLimit == 10

\* The requests whose provider calls have settled.
StorageRequests ==
  {[dominio |-> <<"e", "x", ".", "c", "o", "m">>, escopo |-> e, limite |-> 2] :
     e \in {"GLOBAL", "BR"}}

\* What the GlobalPing call contributed: null or one DNS observation.
StorageGpResults ==
  {Null,
   GpReturn(<<MeasurementResult("dns",
                [status |-> "finished",
                 results |-> <<DnsObject(TRUE, FALSE, <<"93.184.216.34">>,
                                         64500, "ISP A")>>],
                "BR", GpProbeId("dns", 0, 0))>>,
            <<"BR">>)}

\* What the RIPE call contributed: null or the list of one observation.
StorageRipeResults == {Null, RipeReturn(PriorInsert.resultados)}

\* POST /api/diagnosticar from Promise.all on.
StoragePost ==
  /\ Len(storage.diagnosticos) < MaxSaves
  /\ \E req \in StorageRequests, gpResult \in StorageGpResults,
        ripeResult \in StorageRipeResults :
       AfterPromiseAll(req, gpResult, ripeResult)
  /\ UNCHANGED <<gp, ripe, meas, resumo>>

\* storage.listDiagnosticos(limit)
StorageList ==
  /\ \E limit \in 0..MaxList :
       route' = [route EXCEPT !.list =
                   [limit |-> limit, result |-> listDiagnosticos(storage, limit)]]
  /\ UNCHANGED <<gp, ripe, storage, meas, resumo>>

\* GET /api/diagnosticos
GetDiagnosticos ==
  /\ LET list == listDiagnosticos(storage, ListLimit)
     IN  route' = [route EXCEPT !.list =
                     [limit |-> ListLimit,
                      result |-> [k \in 1..Len(list) |->
                                    [list[k] EXCEPT !.data = ToLocaleString(@)]]]]
  /\ UNCHANGED <<gp, ripe, storage, meas, resumo>>

InitStorage ==
  /\ route = RouteInit
  /\ gp = GpIdle
  /\ ripe = RipeIdle
  /\ storage = StorageInit
  /\ meas = MeasIdle
  /\ resumo = ResumoIdle

NextStorage ==
  \/ StoragePost
  \/ StorageList
  \/ GetDiagnosticos

SpecStorage == InitStorage /\ [][NextStorage]_vars

\* C13: for every diagnostic a POST returned, getDiagnostico of its id gives
\* a record with the dominio, escopo, limite, totalProbes, resumo and
\* resultados that were returned, whatever saves and lists followed.
C13_StoredAsReturned ==
  \A k \in 1..Len(route.returned) :
    LET r == route.returned[k]
        d == getDiagnostico(storage, r.id)
    IN  /\ d # Null
        /\ d.dominio = r.dominio
        /\ d.escopo = r.escopo
        /\ d.limite = r.limite
        /\ d.totalProbes = r.totalProbes
        /\ d.resumo = r.resumo
        /\ d.resultados = r.resultados

\* Witness of C13: a listing was answered when two diagnostics were stored,
\* and a different diagnostic was saved after it.
C13_Witness ==
  /\ Len(route.returned) = 3
  /\ route.list # Null
  /\ route.list.limit >= 3
  /\ Len(route.list.result) = 2
  /\ route.returned[1].resultados # route.returned[3].resultados
  /\ route.returned[1].escopo # route.returned[3].escopo

\* The ids of the n most recently saved diagnostics, the latest first (the
\* Map keeps the diagnostics in the order they were saved).
MostRecentIds(st, n) ==
  LET count == Len(st.diagnosticos)
      m == IF n < count THEN n ELSE count
  IN  [k \in 1..m |-> st.diagnosticos[count + 1 - k].id]

\* C16: every listing answered holds min(limit, number stored) records: the
\* most recently saved ones, from the most recently saved to the least, also
\* when diagnostics share a timestamp; GET /api/diagnosticos answers at most
\* 10 records.
C16_ListMostRecentFirst ==
  [][route'.list # route.list =>
       /\ [k \in 1..Len(route'.list.result) |-> route'.list.result[k].id]
            = MostRecentIds(storage, route'.list.limit)
       /\ Len(route'.list.result) <= route'.list.limit]_vars

(***************************************************************************)
(* SpecParse: GlobalpingService.parsePingResults applied to final ping     *)
(* responses of at most MaxResults results; meas.parsed is what it         *)
(* returns.                                                                *)
(***************************************************************************)

\* stats.avg, stats.loss and stats.jitter of the results parsed.
ParseAvgs == {0, 20, 150, 300, 600}
ParseLosses == {0, 10, 30, 100}
ParseJitters == {0, 60}

\* The result objects parsed: without result, without stats, with stats
\* parsed from rawOutput, and with stats.
ParseObjects ==
  { PingObject(FALSE, Null, Null, 0, ""),
    PingObject(TRUE, Null, Null, 0, ""),
    PingObject(TRUE, Null,
               [avg |-> 20, loss |-> 30, stddev |-> -1, resolved |-> "8.8.8.8"],
               0, "") }
  \cup
  { PingObject(TRUE, Stats(avg, loss, jitter, address), Null, 64500, "ISP A") :
      avg \in ParseAvgs, loss \in ParseLosses, jitter \in ParseJitters,
      address \in {"", "93.184.216.34"} }

InitParse ==
  /\ route = RouteInit
  /\ gp = GpIdle
  /\ ripe = RipeIdle
  /\ storage = StorageInit
  /\ resumo = ResumoIdle
  /\ \E results \in SeqsUpTo(ParseObjects, MaxResults) :
       meas = [MeasIdle EXCEPT
                 !.pc = "parse", !.type = "ping", !.countryCode = "BR",
                 !.probeId = GpProbeId("ping", 0, 0), !.hasId = TRUE,
                 !.fullResponse = [status |-> "finished", results |-> results]]

\* this.parsePingResults(fullResponse, target, countryCode, probeId)
ParsePing ==
  /\ meas.pc = "parse"
  /\ meas' = [meas EXCEPT
                !.pc = "parsed",
                !.parsed = parsePingResults(meas.fullResponse, meas.countryCode,
                                            meas.probeId)]
  /\ UNCHANGED <<route, gp, ripe, storage, resumo>>

NextParse == ParsePing

SpecParse == InitParse /\ [][NextParse]_vars

\* The result object an emitted observation was made from.
ParsedFrom(o) == meas.fullResponse.results[o.probe_id - meas.probeId + 1]

\* C21: parsePingResults emits no observation for a result without stats,
\* with average latency <= 0 or with 100% loss; an emitted observation has
\* status ERRO if latency > 500 or loss > 20, otherwise AVISO if latency >
\* 200 or loss > 5 or jitter > 50, otherwise OK; its velocidade is Rapida
\* below 30, Lenta above 100, Normal otherwise.
C21_PingClassification ==
  \A k \in 1..Len(meas.parsed) :
    LET o == meas.parsed[k]
        r == ParsedFrom(o)
    IN  /\ r.hasResult
        /\ r.stats # Null \/ r.rawOutput # Null
        /\ o.latencia > 0
        /\ o.perda_pacotes # 100
        /\ o.status =
             IF o.latencia > 500 \/ o.perda_pacotes > 20 THEN "ERRO"
             ELSE IF o.latencia > 200 \/ o.perda_pacotes > 5 \/ o.jitter > 50
                  THEN "AVISO"
                  ELSE "OK"
        /\ o.velocidade =
             IF o.latencia < 30 THEN "Rapida"
             ELSE IF o.latencia > 100 THEN "Lenta" ELSE "Normal"

\* C22: in every observation parsePingResults emits, status is OK exactly
\* when acessibilidade is the accessible text, and ERRO exactly when it is
\* the inaccessible text.
C22_AcessibilidadeMatchesStatus ==
  \A k \in 1..Len(meas.parsed) :
    LET o == meas.parsed[k]
    IN  /\ o.status = "OK" <=> o.acessibilidade = "Acessivel"
        /\ o.status = "ERRO" <=> o.acessibilidade = "Inacessivel"

(***************************************************************************)
(* SpecIds: one GlobalpingService.executeDiagnostico call for one location *)
(* whose measurement responses carry up to MaxResults results.             *)
(***************************************************************************)
InitIds ==
  /\ route = RouteInit
  /\ ripe = RipeIdle
  /\ storage = StorageInit
  /\ meas = MeasIdle
  /\ resumo = ResumoIdle
  /\ gp = GpCall(<<"e", "x", ".", "c", "o", "m">>, "BR", 1)

\* One iteration of either loop, the final response of the measurement
\* carrying up to MaxResults results.
GpMeasureMany ==
  /\ gp.pc \in {"dns", "ping"}
  /\ \E out \in {Null} \cup
                {MeasurementResult(gp.pc, r, GpCountryCode(gp), GpCurrentProbeId(gp)) :
                   r \in GpResponses(gp.pc, MaxResults)} :
       gp' = GpAfterMeasurement(gp, out)
  /\ UNCHANGED <<route, ripe, storage, meas, resumo>>

NextIds ==
  \/ GpStart
  \/ GpMeasureMany
  \/ GpFinish

SpecIds == InitIds /\ [][NextIds]_vars

\* C25: the observations GlobalpingService.executeDiagnostico returns, which
\* POST /api/diagnosticar puts into the diagnostic, have pairwise distinct
\* probe_id values, also when measurement responses carry several results.
C25_ProbeIdsDistinct ==
  gp.pc = "resolved" =>
    PairwiseDistinct(gp.ret.resultados, LAMBDA o : o.probe_id)

(***************************************************************************)
(* SpecSeq: one GlobalpingService.executeDiagnostico call with each of its *)
(* executeMeasurement calls taken request by request. meas.seq counts the  *)
(* executeMeasurement calls made, meas.outstanding the HTTP requests sent  *)
(* and not yet answered or failed.                                         *)
(***************************************************************************)

\* The runs: <<escopo, limite, most results of a final response>>. Two
\* locations against measurements that yield no result, one location
\* with results.
SeqRuns == {<<"GLOBAL", 2, 0>>, <<"BR", 1, 1>>}

InitSeq ==
  /\ route = RouteInit
  /\ ripe = RipeIdle
  /\ storage = StorageInit
  /\ resumo = ResumoIdle
  /\ \E run \in SeqRuns :
       /\ gp = GpCall(<<"e", "x", ".", "c", "o", "m">>, run[1], run[2])
       /\ meas = [MeasIdle EXCEPT !.width = run[3]]

\* await this.executeMeasurement(dominio, type, countryCode, probeId): the call
SeqCall ==
  /\ gp.pc \in {"dns", "ping"}
  /\ meas.pc = "idle"
  /\ meas' = [MeasIdle EXCEPT !.pc = "start", !.type = gp.pc,
                              !.countryCode = GpCountryCode(gp),
                              !.probeId = GpCurrentProbeId(gp),
                              !.width = meas.width, !.seq = meas.seq + 1]
  /\ UNCHANGED <<route, gp, ripe, storage, resumo>>

\* executeMeasurement has returned: the rest of the loop body.
SeqReturn ==
  /\ gp.pc \in {"dns", "ping"}
  /\ meas.pc = "done"
  /\ gp' = GpAfterMeasurement(gp, meas.result)
  /\ meas' = [MeasIdle EXCEPT !.width = meas.width, !.seq = meas.seq]
  /\ UNCHANGED <<route, ripe, storage, resumo>>

NextSeq ==
  \/ GpStart
  \/ SeqCall
  \/ MeasCreate
  \/ MeasCreateFail
  \/ MeasCreateResponse
  \/ MeasLoop
  \/ MeasPollFail
  \/ MeasPollResponse
  \/ MeasReturn
  \/ SeqReturn
  \/ GpFinish

SpecSeq == InitSeq /\ [][NextSeq]_vars

\* How many logged measurements have the type.
LoggedOfType(type) ==
  Cardinality({k \in 1..Len(gp.log) : gp.log[k].type = type})

\* C23: within one executeDiagnostico run at most one HTTP request is
\* outstanding at any time; while a measurement is being made every earlier
\* measurement of the run has returned; and while a ping measurement is being
\* made the 3 DNS measurements of every location have returned, no DNS
\* measurement following a ping measurement.
C23_StrictlySequential ==
  /\ meas.outstanding \in {0, 1}
  /\ meas.pc # "idle" => Len(gp.log) = meas.seq - 1
  /\ meas.pc = "idle" => Len(gp.log) = meas.seq
  /\ (meas.pc # "idle" /\ meas.type = "ping") =>
       LoggedOfType("dns") = 3 * Len(gp.locations)
  /\ meas.pc # "idle" => meas.type = gp.pc
  /\ \A j, k \in 1..Len(gp.log) :
       (j < k /\ gp.log[j].type = "ping") => gp.log[k].type = "ping"

\* Witness of C23: the first ping measurement of a run over two locations
\* has its create request outstanding, six DNS measurements having returned.
C23_Witness ==
  /\ Len(gp.locations) = 2
  /\ meas.type = "ping"
  /\ meas.pc = "create_sent"
  /\ meas.outstanding = 1
  /\ meas.seq = 7
  /\ LoggedOfType("dns") = 6

(***************************************************************************)
(* Claims about domain validation and totalProbes, checked under Spec      *)
(***************************************************************************)

\* C24: for a dominio that does not pass isValidDomain no GlobalPing
\* measurement is made, no RIPE probe listing is sent and no dig is run (no
\* performRealMeasurement call is in progress); no provider call succeeds,
\* both fail once invoked, the request is answered with an error and
\* nothing is stored.
C24_ValidationBeforeSideEffects ==
  (route.req # Null /\ ~isValidDomain(route.req.dominio)) =>
    /\ gp.log = <<>>
    /\ gp.pc \in {"idle", "start", "rejected"}
    /\ ripe.listed = <<>>
    /\ ripe.pc \in {"idle", "start", "rejected"}
    /\ storage \in InitialStorages
    /\ route.returned = <<>>
    /\ Done =>
         /\ route.response.status >= 400
         /\ route.response.erro # ""
         /\ route.response.body = Null
         /\ route.calls # <<>> => BothFailed

\* Witness of C24: a request whose dominio passes the schema but not
\* isValidDomain was answered after both providers were invoked and failed.
C24_Witness ==
  /\ Done
  /\ route.req.dominio = <<"e", "x", ";", "r", "m">>
  /\ Len(route.calls) = 2
  /\ BothFailed
  /\ route.response.status = 500

\* C26: in every stored diagnostic and in every value a provider's
\* executeDiagnostico resolved with, totalProbes is the length of
\* resultados.
C26_TotalProbesIsLength ==
  /\ \A k \in 1..Len(storage.diagnosticos) :
       storage.diagnosticos[k].totalProbes = Len(storage.diagnosticos[k].resultados)
  /\ gp.pc = "resolved" => gp.ret.totalProbes = Len(gp.ret.resultados)
  /\ ripe.pc = "resolved" => ripe.ret.totalProbes = Len(ripe.ret.resultados)
  /\ Succeeded =>
       route.response.body.totalProbes = Len(route.response.body.resultados)

\* Witness of C26: a stored diagnostic merged from both providers, fewer
\* observations than measurements attempted.
C26_Witness ==
  /\ Succeeded
  /\ gp.pc = "resolved"
  /\ ripe.pc = "resolved"
  /\ Stored.totalProbes = 3
  /\ Len(gp.ret.resultados) = 2
  /\ Len(ripe.ret.resultados) = 1

(***************************************************************************)
(* SpecMem: the three operations of MemStorage: saveDiagnostico through   *)
(* the POST, listDiagnosticos through the GET, and getDiagnostico.         *)
(***************************************************************************)

\* storage.getDiagnostico(id)
StorageGet ==
  /\ \E id \in 0..(MaxSaves + 1) :
       route' = [route EXCEPT !.got =
                   [id |-> id, result |-> getDiagnostico(storage, id)]]
  /\ UNCHANGED <<gp, ripe, storage, meas, resumo>>

\* POST /api/diagnosticar from Promise.all on, GlobalPing having answered.
MemPost ==
  /\ Len(storage.diagnosticos) < MaxSaves
  /\ \E req \in StorageRequests, gpResult \in StorageGpResults \ {Null},
        ripeResult \in StorageRipeResults :
       AfterPromiseAll(req, gpResult, ripeResult)
  /\ UNCHANGED <<gp, ripe, meas, resumo>>

NextMem ==
  \/ MemPost
  \/ GetDiagnosticos
  \/ StorageGet

SpecMem == InitStorage /\ [][NextMem]_vars


\* C27: the k-th saveDiagnostico returns id k; the stored diagnostics are
\* exactly those with ids 1..counter-1, which getDiagnostico finds and no
\* others; and no step removes or changes a diagnostic stored earlier or
\* lowers the counter.
C27_StorageIdentifiers ==
  /\ [](/\ \A k \in 1..Len(route.returned) : route.returned[k].id = k
        /\ {storage.diagnosticos[k].id : k \in 1..Len(storage.diagnosticos)}
             = 1..(storage.diagnosticoIdCounter - 1)
        /\ Len(storage.diagnosticos) = storage.diagnosticoIdCounter - 1
        /\ \A id \in 0..(MaxSaves + 1) :
             getDiagnostico(storage, id) # Null
               <=> id \in 1..(storage.diagnosticoIdCounter - 1)
        /\ route.got # Null =>
             (route.got.result # Null => route.got.result.id = route.got.id))
  /\ [][/\ storage'.diagnosticoIdCounter >= storage.diagnosticoIdCounter
        /\ \A id \in 1..(storage.diagnosticoIdCounter - 1) :
             getDiagnostico(storage', id) = getDiagnostico(storage, id)]_vars

\* Witness of C27: three diagnostics saved, a listing and a getDiagnostico of
\* the first id answered once the third was stored.
C27_Witness ==
  /\ Len(route.returned) = 3
  /\ storage.diagnosticoIdCounter = 4
  /\ route.list # Null
  /\ Len(route.list.result) = 3
  /\ route.got # Null
  /\ route.got.id = 1
  /\ route.got.result = getDiagnostico(storage, 1)
  /\ route.got.result # Null

=============================================================================
